---- MODULE Spec2Model ----
(***************************************************************************)
(* Intel HEX codec (crate intelhex): Record::parse / to_bytes /            *)
(* to_hex_str / calculate_checksum / binary_size and IntelHexFile::load /  *)
(* parse_records / to_hex_str / to_bytes / binary_size.                    *)
(*                                                                         *)
(* Text is a sequence of BYTES (a Rust &str is UTF-8).  A byte is written  *)
(* as a one-character string; the two bytes of the two-byte character      *)
(* U+00E9 are written "xC3" and "xA9".  All indices of the source are      *)
(* 0-based byte offsets; Slice translates them to TLA+ sequences.          *)
(***************************************************************************)
EXTENDS Integers, Sequences, FiniteSets, TLC

(***************************************************************************)
(* Bounds of the model.                                                    *)
(***************************************************************************)
\* largest declared payload length / number of payload bytes in a generated line
MaxData == 1
\* largest number of lines of a generated multi-line document
MaxLines == 3

(***************************************************************************)
(* Bytes and strings                                                       *)
(***************************************************************************)
RECORD_START == ":"
LF == "\n"
CR == "\r"
\* the UTF-8 encoding of a two-byte character: lead byte, continuation byte
LeadByte == "xC3"
ContByte == "xA9"

\* hex crate, fn val(): '0'..'9', 'a'..'f', 'A'..'F' -> 0..15, anything else is an error
HexChars == {"0","1","2","3","4","5","6","7","8","9",
             "a","b","c","d","e","f","A","B","C","D","E","F"}

HexVal(c) ==
    CASE c = "0" -> 0  [] c = "1" -> 1  [] c = "2" -> 2  [] c = "3" -> 3
      [] c = "4" -> 4  [] c = "5" -> 5  [] c = "6" -> 6  [] c = "7" -> 7
      [] c = "8" -> 8  [] c = "9" -> 9
      [] c \in {"a", "A"} -> 10  [] c \in {"b", "B"} -> 11
      [] c \in {"c", "C"} -> 12  [] c \in {"d", "D"} -> 13
      [] c \in {"e", "E"} -> 14  [] c \in {"f", "F"} -> 15

\* hex::decode: Err on odd length or on any non-hex byte, else one byte per pair
HexDecodeOk(s) ==
    /\ Len(s) % 2 = 0
    /\ \A k \in 1..Len(s) : s[k] \in HexChars

HexDecode(s) ==
    [k \in 1..(Len(s) \div 2) |-> 16 * HexVal(s[2 * k - 1]) + HexVal(s[2 * k])]

\* hex::ToHex::encode_hex: two LOWER-case digits per byte
HexDigitsLower ==
    <<"0","1","2","3","4","5","6","7","8","9","a","b","c","d","e","f">>

RECURSIVE encode_hex(_)
encode_hex(byts) ==
    IF byts = <<>> THEN <<>>
    ELSE <<HexDigitsLower[(byts[1] \div 16) + 1], HexDigitsLower[(byts[1] % 16) + 1]>>
         \o encode_hex(Tail(byts))

\* str::to_ascii_uppercase, on the letters of the alphabet of the model
UpperChar(c) ==
    CASE c = "a" -> "A" [] c = "b" -> "B" [] c = "c" -> "C" [] c = "d" -> "D"
      [] c = "e" -> "E" [] c = "f" -> "F" [] c = "g" -> "G"
      [] OTHER -> c

to_ascii_uppercase(s) == [k \in 1..Len(s) |-> UpperChar(s[k])]

\* str::is_char_boundary(i): start, end, or a byte that is not a continuation byte
IsCharBoundary(s, i) ==
    \/ i = 0
    \/ i = Len(s)
    \/ (i > 0 /\ i < Len(s) /\ s[i + 1] # ContByte)

\* &s[a..b] panics unless a <= b <= len and both ends are char boundaries
SliceOk(s, a, b) ==
    /\ a <= b
    /\ b <= Len(s)
    /\ IsCharBoundary(s, a)
    /\ IsCharBoundary(s, b)

Slice(s, a, b) == SubSeq(s, a + 1, b)

\* str::find(|b| b == RECORD_START): byte offset of the first marker, -1 for None
RECURSIVE FindFrom(_, _)
FindFrom(line, k) ==
    IF k > Len(line) THEN -1
    ELSE IF line[k] = RECORD_START THEN k - 1
    ELSE FindFrom(line, k + 1)

\* faulty variant of Find: a marker counts only as the first byte of the line
Find_at_start(line) ==
    IF line # <<>> /\ line[1] = RECORD_START THEN 0 ELSE -1

Find(line) == FindFrom(line, 1)

RECURSIVE SumSeq(_)
SumSeq(s) == IF s = <<>> THEN 0 ELSE s[1] + SumSeq(Tail(s))

(***************************************************************************)
(* IntelHexError: a chain of frames, outermost first; set_source appends   *)
(* the cause.  A frame keeps the format string and its arguments apart.    *)
(***************************************************************************)
IHexError_new(err_type, msg, nums, text) ==
    <<[err_type |-> err_type, msg |-> msg, nums |-> nums, text |-> text]>>

\* the hex crate's FromHexError, boxed as the source of a RecordBadEndcoding error
FromHexError == IHexError_new("FromHexError", "", <<>>, <<>>)

set_source(err, source) == err \o source

(***************************************************************************)
(* RecordType                                                              *)
(***************************************************************************)
RecordTypes ==
    {"Data", "EndOfFile", "ExtendedSegmentAddress",
     "ExtendedLinearAddress", "StartLinearAddress"}

\* RecordType::parse matches the two-byte text against five literals
RecordType_parse_ok(s) ==
    s \in {<<"0","0">>, <<"0","1">>, <<"0","2">>, <<"0","4">>, <<"0","5">>}

RecordType_parse(s) ==
    CASE s = <<"0","0">> -> "Data"
      [] s = <<"0","1">> -> "EndOfFile"
      [] s = <<"0","2">> -> "ExtendedSegmentAddress"
      [] s = <<"0","4">> -> "ExtendedLinearAddress"
      [] s = <<"0","5">> -> "StartLinearAddress"

RecordType_parse_err(s) ==
    IHexError_new("RecordInvalidType", "Invalid record type: {}", <<>>, s)

RecordType_to_u8(rtype) ==
    CASE rtype = "Data" -> 0
      [] rtype = "EndOfFile" -> 1
      [] rtype = "ExtendedSegmentAddress" -> 2
      [] rtype = "ExtendedLinearAddress" -> 4
      [] rtype = "StartLinearAddress" -> 5

(***************************************************************************)
(* Record                                                                  *)
(***************************************************************************)
\* faulty variant of twos_comp: the one's complement
twos_comp_ones(input) == 255 - input

\* util::twos_comp: (input as i64 * -1) as u8
twos_comp(input) == (0 - input) % 256

\* u16::to_be_bytes
to_be_bytes(addr) == <<addr \div 256, addr % 256>>

Record_to_bytes(r) ==
    <<r.len>> \o to_be_bytes(r.addr) \o <<RecordType_to_u8(r.rtype)>>
        \o r.data \o <<r.checksum>>

\* faulty variant of Record_to_hex_str: the digits stay as encode_hex gives them
Record_to_hex_str_lower(r) ==
    <<RECORD_START>> \o encode_hex(Record_to_bytes(r))

Record_to_hex_str(r) ==
    <<RECORD_START>> \o to_ascii_uppercase(encode_hex(Record_to_bytes(r)))

calculate_checksum(r) ==
    LET byts == Record_to_bytes(r)
    IN  twos_comp(SumSeq(SubSeq(byts, 1, Len(byts) - 1)) % 256)

Record_binary_size(r) == Len(r.data) + 7

\* results of Record::parse: Ok(Some(rec)), Ok(None), Err(err), or a panic
NoRecord == [len |-> 0, addr |-> 0, rtype |-> "Data", data |-> <<>>, checksum |-> 0]
OkSome(r) == [tag |-> "Some", rec |-> r, err |-> <<>>]
OkNone == [tag |-> "None", rec |-> NoRecord, err |-> <<>>]
Err(e) == [tag |-> "Err", rec |-> NoRecord, err |-> e]
Panic == [tag |-> "Panic", rec |-> NoRecord, err |-> <<>>]

BadEncoding(msg) ==
    set_source(IHexError_new("RecordBadEndcoding", msg, <<>>, <<>>), FromHexError)

\* Record::parse after the checksum field has been decoded (file.rs 124-131)
Record_check(record) ==
    LET checksum == calculate_checksum(record)
    IN  IF checksum = record.checksum
        THEN OkSome(record)
        ELSE Err(IHexError_new("RecordBadChecksum",
                 "Bad checksum: 0x{:X}, calculated: 0x{:X} ({})",
                 <<record.checksum, checksum, checksum>>, <<>>))

\* Record::parse from the struct literal on (file.rs 88-122): address, type,
\* payload and checksum are sliced and decoded in this order
Record_fields(record_str, len, data_end, record_end) ==
    IF ~SliceOk(record_str, 2, 6) THEN Panic
    ELSE IF ~HexDecodeOk(Slice(record_str, 2, 6))
    THEN Err(BadEncoding("Error while decoding address"))
    ELSE IF ~SliceOk(record_str, 6, 8) THEN Panic
    ELSE IF ~RecordType_parse_ok(Slice(record_str, 6, 8))
    THEN Err(RecordType_parse_err(Slice(record_str, 6, 8)))
    ELSE IF ~SliceOk(record_str, 8, data_end) THEN Panic
    ELSE IF ~HexDecodeOk(Slice(record_str, 8, data_end))
    THEN Err(BadEncoding("Error while decoding address"))
    ELSE IF ~SliceOk(record_str, data_end, record_end) THEN Panic
    ELSE IF ~HexDecodeOk(Slice(record_str, data_end, record_end))
    THEN Err(BadEncoding("Error while decoding checksum"))
    ELSE LET byts == HexDecode(Slice(record_str, 2, 6))
         IN  Record_check(
               [len      |-> len,
                addr     |-> (byts[1] * 256) + byts[2],
                rtype    |-> RecordType_parse(Slice(record_str, 6, 8)),
                data     |-> HexDecode(Slice(record_str, 8, data_end)),
                checksum |-> SumSeq(HexDecode(Slice(record_str, data_end, record_end)))])

\* Record::parse once the length byte is known (file.rs 79-86): the length check
Record_sized(record_str, len) ==
    LET data_end   == 8 + (len * 2)
        record_end == 2 + data_end
    IN  IF ~(record_end <= Len(record_str))
        THEN Err(IHexError_new("RecordInvalidLength",
                 "Record length: {}, expected: {}",
                 <<Len(record_str), record_end>>, <<>>))
        ELSE Record_fields(record_str, len, data_end, record_end)

Record_parse(line) ==
    LET start == Find(line)
    IN  IF start = -1 THEN OkNone
        ELSE LET record_str == Slice(line, start + 1, Len(line))
             IN  IF ~SliceOk(record_str, 0, 2) THEN Panic
                 ELSE IF ~HexDecodeOk(Slice(record_str, 0, 2))
                 THEN Err(BadEncoding("Error while decoding record length"))
                 ELSE Record_sized(record_str,
                                   SumSeq(HexDecode(Slice(record_str, 0, 2))))

(***************************************************************************)
(* IntelHexFile                                                            *)
(***************************************************************************)
\* str::lines(): split after every LF; a piece loses its final LF and then,
\* only if it had one, a final CR; text after the last LF is a line if non-empty
RECURSIVE LinesFrom(_, _, _)
LinesFrom(raw, k, cur) ==
    IF k > Len(raw) THEN (IF cur = <<>> THEN <<>> ELSE <<cur>>)
    ELSE IF raw[k] = LF
    THEN <<IF cur # <<>> /\ cur[Len(cur)] = CR
           THEN SubSeq(cur, 1, Len(cur) - 1) ELSE cur>>
         \o LinesFrom(raw, k + 1, <<>>)
    ELSE LinesFrom(raw, k + 1, Append(cur, raw[k]))

Lines(raw) == LinesFrom(raw, 1, <<>>)

\* the error load returns when parse_records fails on line i (0-based index)
FileBadRecord(i, record_err) ==
    set_source(IHexError_new("FileErrorLoad", "Error loading data", <<>>, <<>>),
        set_source(IHexError_new("FileBadRecord",
                       "Error while parsing record on line {}", <<i + 1>>, <<>>),
                   record_err))

\* the struct load builds from the parsed records
IntelHexFile(raw, recs) ==
    [path |-> "None", size |-> Len(raw), records |-> recs]

\* the loop of to_hex_str: every record's text, LF after all but index last_i
RECURSIVE to_hex_str_loop(_, _, _)
to_hex_str_loop(recs, k, last_i) ==
    IF k >= Len(recs) THEN <<>>
    ELSE Record_to_hex_str(recs[k + 1])
         \o (IF k # last_i THEN <<LF>> ELSE <<>>)
         \o to_hex_str_loop(recs, k + 1, last_i)

\* `records.len() - 1` on usize.  With overflow checks (debug profile) 0 - 1
\* panics; without them it wraps to usize::MAX, written -1 here: it is only
\* compared for inequality with indices 0..len-1.
to_hex_str_panics(f, checks) == Len(f.records) = 0 /\ checks

to_hex_str(f) == to_hex_str_loop(f.records, 0, Len(f.records) - 1)

RECURSIVE to_bytes_loop(_)
to_bytes_loop(recs) ==
    IF recs = <<>> THEN <<>>
    ELSE Record_to_bytes(recs[1]) \o to_bytes_loop(Tail(recs))

to_bytes(f) == to_bytes_loop(f.records)

RECURSIVE binary_size_sum(_)
binary_size_sum(recs) ==
    IF recs = <<>> THEN 0
    ELSE Record_binary_size(recs[1]) + binary_size_sum(Tail(recs))

binary_size(f) == binary_size_sum(f.records)

(***************************************************************************)
(* Inputs                                                                  *)
(***************************************************************************)
E9 == <<LeadByte, ContByte>>

\* the checksum byte that makes head (hex text of length, address, type, payload) valid
GoodSum(head) == (256 - (SumSeq(HexDecode(head)) % 256)) % 256

LenFields == {encode_hex(<<n>>) : n \in 0..MaxData} \cup {<<"0", "g">>}
AddrFields == {<<"0","0","0","0">>, <<"a","4","5","5">>, <<"0","0","g","0">>}
TypeFields == {<<"0","0">>, <<"0","1">>, <<"0","2">>, <<"0","3">>, <<"0","4">>,
               <<"0","5">>, <<"0","g">>}
PayloadPairs == {<<"2","E">>, <<"f","F">>, <<"g","0">>}

RECURSIVE Payloads(_)
Payloads(n) ==
    IF n = 0 THEN {<<>>}
    ELSE {p \o q : p \in Payloads(n - 1), q \in PayloadPairs}

PayloadFields == UNION {Payloads(n) : n \in 0..MaxData}

SumFields(head) ==
    IF HexDecodeOk(head)
    THEN {to_ascii_uppercase(encode_hex(<<GoodSum(head)>>)),
          encode_hex(<<GoodSum(head)>>),
          to_ascii_uppercase(encode_hex(<<(GoodSum(head) + 1) % 256>>)),
          <<"0", "g">>}
    ELSE {<<"0", "0">>, <<"0", "g">>}

Heads(lens, addrs, types) ==
    {l \o a \o t \o p : l \in lens, a \in addrs, t \in types, p \in PayloadFields}

Bodies(heads) == UNION {{h \o c : c \in SumFields(h)} : h \in heads}

AllBodies == Bodies(Heads(LenFields, AddrFields, TypeFields))
PlainBodies ==
    Bodies(Heads(LenFields \ {<<"0", "g">>}, {<<"0","0","0","0">>}, {<<"0","0">>}))

\* one line: a body behind a marker, with text before it, after it, a second
\* marker, a cut anywhere, or a two-byte character anywhere
RecLines ==
    UNION {{<<RECORD_START>> \o b,
            <<RECORD_START>> \o b \o <<"g">>,
            <<"g", RECORD_START>> \o b \o <<RECORD_START, "0">>,
            E9 \o <<RECORD_START>> \o b \o E9} : b \in AllBodies}
    \cup UNION {{<<RECORD_START>> \o SubSeq(b, 1, n) : n \in 0..Len(b)}
                 : b \in PlainBodies}
    \cup UNION {{<<RECORD_START>> \o SubSeq(b, 1, n) \o E9 \o SubSeq(b, n + 1, Len(b))
                 : n \in 0..Len(b)} : b \in PlainBodies}

EOF_REC == <<":","0","0","0","0","0","0","0","1","F","F">>

\* the lines of the documents: a data record in lower case, an end-of-file
\* record between other text, a blank line, a line without marker, a record
\* with a wrong checksum, a line cut after its first digit
DocLines ==
    {<<":","0","1","a","4","5","5","0","0","2","e","d","8">>,
     <<"g">> \o EOF_REC \o <<"g", CR>>,
     <<>>,
     <<"g", CR>>,
     <<":","0","0","0","0","0","0","0","1","F","E">>,
     <<":","0">>}

\* documents of n lines, each ended by LF
RECURSIVE Terminated(_)
Terminated(n) ==
    IF n = 0 THEN {<<>>}
    ELSE {d \o l \o <<LF>> : d \in Terminated(n - 1), l \in DocLines}

\* ... and the same with the LF of the last line left out
Documents ==
    UNION {Terminated(n) : n \in 0..MaxLines}
    \cup UNION {{d \o l : d \in Terminated(n - 1), l \in DocLines \ {<<>>}}
                 : n \in 1..MaxLines}

Inputs == RecLines \cup Documents

(***************************************************************************)
(* State                                                                   *)
(***************************************************************************)
VARIABLES
    raw_data,         \* the text given to IntelHexFile::load
    overflow_checks,  \* the build profile: integer overflow panics (debug) or wraps
    pc,               \* "load", "parse_records", "file", "error" or "panic"
    i,                \* parse_records: index of the next line
    records,          \* parse_records: the Vec built so far
    results,          \* what Record::parse did on each line so far, in order
    file,             \* Option<IntelHexFile>: <<>> or <<f>>, the Ok value of load
    err,              \* the Err value of load (<<>> when none)
    panic,            \* "" or the function that panicked
    hex_str,          \* Option: the value file.to_hex_str() returned
    bytes,            \* Option: the value file.to_bytes() returned
    bin_size,         \* Option: the value file.binary_size() returned
    first             \* Option: input, file and text of the first load, once its text is loaded again

vars == <<raw_data, overflow_checks, pc, i, records, results, file, err, panic,
          hex_str, bytes, bin_size, first>>

Init ==
    /\ raw_data \in Inputs
    /\ overflow_checks \in BOOLEAN
    /\ pc = "load"
    /\ i = 0
    /\ records = <<>>
    /\ results = <<>>
    /\ file = <<>>
    /\ err = <<>>
    /\ panic = ""
    /\ hex_str = <<>>
    /\ bytes = <<>>
    /\ bin_size = <<>>
    /\ first = <<>>

\* IntelHexFile::load calls parse_records
Load ==
    /\ pc = "load"
    /\ pc' = "parse_records"
    /\ i' = 0
    /\ records' = <<>>
    /\ results' = <<>>
    /\ UNCHANGED <<raw_data, overflow_checks, file, err, panic, hex_str, bytes,
                   bin_size, first>>

\* one iteration of the loop of parse_records
ParseLine ==
    /\ pc = "parse_records"
    /\ i < Len(Lines(raw_data))
    /\ LET record_opt == Record_parse(Lines(raw_data)[i + 1])
       IN  /\ results' = Append(results, record_opt)
           /\ CASE record_opt.tag = "Some" ->
                     /\ records' = Append(records, record_opt.rec)
                     /\ i' = i + 1
                     /\ UNCHANGED <<pc, err, panic>>
                [] record_opt.tag = "None" ->
                     /\ i' = i + 1
                     /\ UNCHANGED <<pc, records, err, panic>>
                [] record_opt.tag = "Err" ->
                     /\ pc' = "error"
                     /\ err' = FileBadRecord(i, record_opt.err)
                     /\ records' = <<>>
                     /\ UNCHANGED <<i, panic>>
                [] record_opt.tag = "Panic" ->
                     /\ pc' = "panic"
                     /\ panic' = "Record::parse"
                     /\ records' = <<>>
                     /\ UNCHANGED <<i, err>>
    /\ UNCHANGED <<raw_data, overflow_checks, file, hex_str, bytes, bin_size, first>>

\* the loop is over: parse_records returns Ok(records), load returns Ok(Self {..})
ReturnFile ==
    /\ pc = "parse_records"
    /\ i = Len(Lines(raw_data))
    /\ file' = <<IntelHexFile(raw_data, records)>>
    /\ pc' = "file"
    /\ UNCHANGED <<raw_data, overflow_checks, i, records, results, err, panic,
                   hex_str, bytes, bin_size, first>>

ToHexStr ==
    /\ pc = "file"
    /\ hex_str = <<>>
    /\ IF to_hex_str_panics(file[1], overflow_checks)
       THEN /\ pc' = "panic"
            /\ panic' = "IntelHexFile::to_hex_str"
            /\ UNCHANGED hex_str
       ELSE /\ hex_str' = <<to_hex_str(file[1])>>
            /\ UNCHANGED <<pc, panic>>
    /\ UNCHANGED <<raw_data, overflow_checks, i, records, results, file, err,
                   bytes, bin_size, first>>

ToBytes ==
    /\ pc = "file"
    /\ bytes = <<>>
    /\ bytes' = <<to_bytes(file[1])>>
    /\ UNCHANGED <<raw_data, overflow_checks, pc, i, records, results, file, err,
                   panic, hex_str, bin_size, first>>

BinarySize ==
    /\ pc = "file"
    /\ bin_size = <<>>
    /\ bin_size' = <<binary_size(file[1])>>
    /\ UNCHANGED <<raw_data, overflow_checks, pc, i, records, results, file, err,
                   panic, hex_str, bytes, first>>

\* the round trip: the text the file was written as is loaded in its turn
Reload ==
    /\ pc = "file"
    /\ hex_str # <<>>
    /\ first = <<>>
    /\ first' = <<[raw_data |-> raw_data, file |-> file[1], hex_str |-> hex_str[1]]>>
    /\ raw_data' = hex_str[1]
    /\ pc' = "load"
    /\ i' = 0
    /\ records' = <<>>
    /\ results' = <<>>
    /\ file' = <<>>
    /\ hex_str' = <<>>
    /\ bytes' = <<>>
    /\ bin_size' = <<>>
    /\ UNCHANGED <<overflow_checks, err, panic>>

Next ==
    \/ Load
    \/ ParseLine
    \/ ReturnFile
    \/ ToHexStr
    \/ ToBytes
    \/ BinarySize
    \/ Reload

Spec == Init /\ [][Next]_vars

(***************************************************************************)
(* The format, stated on the input text alone (no operator of the codec).  *)
(***************************************************************************)
\* positions of the line feeds of a text
LFs(raw) == {p \in 1..Len(raw) : raw[p] = LF}

\* number of lines: one per line feed, and one more for text after the last
NumLines(raw) ==
    Cardinality(LFs(raw))
        + (IF raw # <<>> /\ raw[Len(raw)] # LF THEN 1 ELSE 0)

\* the k-th line (k counted from 1): the text between the (k-1)-th and k-th
\* line feed, without the carriage return of a CR LF ending
TextLine(raw, k) ==
    LET before == {p \in LFs(raw) : Cardinality({q \in LFs(raw) : q <= p}) = k - 1}
        from   == IF before = {} THEN 1 ELSE (CHOOSE p \in before : TRUE) + 1
        ends   == {p \in LFs(raw) : Cardinality({q \in LFs(raw) : q <= p}) = k}
        upto   == IF ends = {} THEN Len(raw) ELSE (CHOOSE p \in ends : TRUE) - 1
        text   == SubSeq(raw, from, upto)
    IN  IF ends # {} /\ text # <<>> /\ text[Len(text)] = CR
        THEN SubSeq(text, 1, Len(text) - 1)
        ELSE text

Marked(line) == \E k \in 1..Len(line) : line[k] = RECORD_START

\* the text that follows the first marker of a marked line
AfterMarker(line) ==
    LET m == CHOOSE k \in 1..Len(line) :
                 /\ line[k] = RECORD_START
                 /\ \A j \in 1..(k - 1) : line[j] # RECORD_START
    IN  SubSeq(line, m + 1, Len(line))

IsHex(t) == \A k \in 1..Len(t) : t[k] \in HexChars

\* value of the two hex digits at 1-based positions p, p+1 of b
PairVal(b, p) == 16 * HexVal(b[p]) + HexVal(b[p + 1])

HasLength(b) == Len(b) >= 2 /\ IsHex(SubSeq(b, 1, 2))
Declared(b) == PairVal(b, 1)
\* characters a record of the declared length takes after the marker
Needed(b) == 8 + 2 * Declared(b) + 2
LongEnough(b) == HasLength(b) /\ Len(b) >= Needed(b)

AddressField(b) == SubSeq(b, 3, 6)
TypeField(b) == SubSeq(b, 7, 8)
PayloadField(b) == SubSeq(b, 9, 8 + 2 * Declared(b))
ChecksumField(b) == SubSeq(b, Needed(b) - 1, Needed(b))

TypeCodes == {<<"0","0">>, <<"0","1">>, <<"0","2">>, <<"0","4">>, <<"0","5">>}

\* the checksum of the format: (0 - sum of the bytes before it) mod 256
FormatSum(b) ==
    LET n == (Needed(b) - 2) \div 2
        total == SumSeq([k \in 1..n |-> PairVal(b, 2 * k - 1)])
    IN  (256 - (total % 256)) % 256

\* every field decodes and the type code is one of the five
FieldsDecode(b) ==
    /\ LongEnough(b)
    /\ IsHex(SubSeq(b, 1, Needed(b)))
    /\ TypeField(b) \in TypeCodes

\* a record line of the format, whatever its checksum
Decodes(line) == Marked(line) /\ FieldsDecode(AfterMarker(line))

\* the lines Record::parse has been called on, by number
Parsed == 1..Len(results)

(***************************************************************************)
(* Claims                                                                  *)
(***************************************************************************)

\* C2: for a marked line whose five fields all decode and whose type code is
\* recognized, Record::parse returns a record exactly when the declared
\* checksum is (0 - (length + address bytes + type + payload bytes)) mod 256 and
\* fails with BadChecksum otherwise; the bytes of every record of a loaded
\* document, and so of the document, sum to 0 mod 256.
ChecksumValidation ==
    /\ \A k \in Parsed :
         LET line == TextLine(raw_data, k)
         IN  Decodes(line) =>
               LET b == AfterMarker(line)
               IN  IF PairVal(b, Needed(b) - 1) = FormatSum(b)
                   THEN /\ results[k].tag = "Some"
                        /\ results[k].rec.checksum = FormatSum(b)
                   ELSE /\ results[k].tag = "Err"
                        /\ results[k].err[1].err_type = "RecordBadChecksum"
                        /\ results[k].err[1].nums
                             = <<PairVal(b, Needed(b) - 1), FormatSum(b), FormatSum(b)>>
    /\ \A k \in Parsed :
         results[k].tag = "Some" => Decodes(TextLine(raw_data, k))
    /\ file # <<>> =>
         \A k \in 1..Len(file[1].records) :
             SumSeq(Record_to_bytes(file[1].records[k])) % 256 = 0
    /\ bytes # <<>> => SumSeq(bytes[1]) % 256 = 0

\* C2 witness: in one load a data record with a payload byte and a non-zero
\* checksum was accepted and a later line whose fields decode was refused
ChecksumValidationWitness ==
    \E j \in Parsed, k \in Parsed :
        /\ results[j].tag = "Some"
        /\ results[j].rec.len > 0
        /\ results[j].rec.checksum > 0
        /\ results[j].rec.addr > 255
        /\ Decodes(TextLine(raw_data, k))
        /\ results[k].tag = "Err"
        /\ results[k].err[1].err_type = "RecordBadChecksum"

\* number of marked lines among the first k lines of the input
MarkedUpTo(raw, k) == Cardinality({j \in 1..k : Marked(TextLine(raw, j))})

\* C7: a blank line or a line without ':' makes Record::parse return None and
\* adds no record and no error; a successful load has parsed every line, its
\* records are what Record::parse returned on the marked lines, in their order
\* of appearance, and its size is the byte length of the input.
SkipAndOrder ==
    /\ \A k \in Parsed :
         ~Marked(TextLine(raw_data, k)) <=> results[k].tag = "None"
    /\ file # <<>> =>
         /\ Len(results) = NumLines(raw_data)
         /\ file[1].size = Len(raw_data)
         /\ Len(file[1].records) = MarkedUpTo(raw_data, NumLines(raw_data))
         /\ \A k \in Parsed :
              Marked(TextLine(raw_data, k)) =>
                /\ results[k].tag = "Some"
                /\ file[1].records[MarkedUpTo(raw_data, k)] = results[k].rec

\* C7 witness: a load succeeded on a record, a skipped line and a different
\* record, in this order, the first with text before its marker
SkipAndOrderWitness ==
    /\ file # <<>>
    /\ first = <<>>
    /\ Len(results) = 3
    /\ results[1].tag = "Some"
    /\ results[2].tag = "None"
    /\ results[3].tag = "Some"
    /\ results[1].rec # results[3].rec
    /\ raw_data[1] # RECORD_START
    /\ Len(file[1].records) = 2

\* the text Record::to_hex_str must give for the record of a marked line: the
\* marker and the upper-cased 10 + 2 * length characters after the first marker
Canonical(line) ==
    LET b == AfterMarker(line)
    IN  <<RECORD_START>> \o to_ascii_uppercase(SubSeq(b, 1, 10 + 2 * Declared(b)))

\* the canonical texts of the marked lines k, k+1, ... of raw, LF between them
RECURSIVE CanonicalFrom(_, _)
CanonicalFrom(raw, k) ==
    IF k > NumLines(raw) THEN <<>>
    ELSE IF ~Marked(TextLine(raw, k)) THEN CanonicalFrom(raw, k + 1)
    ELSE LET rest == CanonicalFrom(raw, k + 1)
         IN  Canonical(TextLine(raw, k))
             \o (IF rest = <<>> THEN <<>> ELSE <<LF>> \o rest)

\* C10: for every line on which Record::parse returns a record r, the text
\* r.to_hex_str() is ':' and the upper-cased 10 + 2 * length characters after the
\* first ':' of the line (so case, text before the marker and text after the
\* checksum do not count); the payload of r has `length` bytes; and parsing
\* r.to_hex_str() returns a record equal to r.
CanonicalReemission ==
    /\ \A k \in Parsed :
         results[k].tag = "Some" =>
           /\ Len(results[k].rec.data) = results[k].rec.len
           /\ results[k].rec.len = Declared(AfterMarker(TextLine(raw_data, k)))
    /\ hex_str # <<>> => hex_str[1] = CanonicalFrom(raw_data, 1)
    /\ first # <<>> =>
         \A k \in Parsed :
             /\ k <= Len(first[1].file.records)
             /\ results[k] = OkSome(first[1].file.records[k])

\* C10 witness: a record with a payload, read from a line with text before the
\* marker, lower-case digits and text after the checksum, was written as text
\* that differs from the line, and that text was parsed again
CanonicalReemissionWitness ==
    /\ first # <<>>
    /\ Len(results) = 1
    /\ results[1].rec.len > 0
    /\ first[1].raw_data[1] # RECORD_START
    /\ \E p \in 1..Len(first[1].raw_data) : first[1].raw_data[p] \in {"a", "f"}
    /\ Len(first[1].raw_data) > Len(first[1].hex_str) + 1
    /\ \A p \in 1..Len(raw_data) : raw_data[p] \notin {"a", "f"}

\* a marked line that is a record of the format with the right checksum
Valid(line) ==
    /\ Decodes(line)
    /\ PairVal(AfterMarker(line), Needed(AfterMarker(line)) - 1)
         = FormatSum(AfterMarker(line))

\* a marked line that is not: Record::parse must fail on it
Malformed(line) == Marked(line) /\ ~Valid(line)

\* what Record::parse did: "none" for a record, the kind of the error, or "panic"
Outcome(res) ==
    CASE res.tag = "Some" -> "none"
      [] res.tag = "None" -> "skip"
      [] res.tag = "Err" -> res.err[1].err_type
      [] res.tag = "Panic" -> "panic"

\* C3: a text without any ':' (the empty text among them) loads with zero
\* records and size = its byte length, and to_hex_str() of that document
\* returns the empty text, with no underflow or out-of-bounds failure.
EmptyDocument ==
    ~Marked(raw_data) =>
        /\ pc \notin {"error", "panic"}
        /\ file # <<>> =>
             /\ file[1].records = <<>>
             /\ file[1].size = Len(raw_data)
        /\ hex_str # <<>> => hex_str[1] = <<>>

\* what holds of C3: the load itself, and to_hex_str when overflow is unchecked
EmptyDocumentLoads ==
    ~Marked(raw_data) =>
        /\ pc # "error"
        /\ panic # "Record::parse"
        /\ pc = "panic" => overflow_checks
        /\ file # <<>> =>
             /\ file[1].records = <<>>
             /\ file[1].size = Len(raw_data)
        /\ hex_str # <<>> => hex_str[1] = <<>>

\* C1: every document D a load returned has a text D.to_hex_str(); loading that
\* text succeeds, gives the same records in the same order, and its text is
\* D.to_hex_str() again.
RoundTrip ==
    /\ panic # "IntelHexFile::to_hex_str"
    /\ first # <<>> =>
         /\ pc # "error"
         /\ panic # "Record::parse"
         /\ file # <<>> => file[1].records = first[1].file.records
         /\ hex_str # <<>> => hex_str[1] = first[1].hex_str

\* what holds of C1: the round trip of every document that to_hex_str can write
RoundTripOfWritten ==
    /\ panic = "IntelHexFile::to_hex_str" => (file[1].records = <<>> /\ overflow_checks)
    /\ first # <<>> =>
         /\ pc # "error"
         /\ panic # "Record::parse"
         /\ file # <<>> => file[1].records = first[1].file.records
         /\ hex_str # <<>> => hex_str[1] = first[1].hex_str

\* too short to hold its fields: no length field, or fewer characters than the
\* declared length needs
TooShort(b) == Len(b) < 2 \/ (HasLength(b) /\ Len(b) < Needed(b))

\* C4: on every marked line that is too short to hold its fields, a missing
\* length field included, Record::parse returns an InvalidLength error.
ShortLinesRejected ==
    \A k \in Parsed :
        LET line == TextLine(raw_data, k)
        IN  (Marked(line) /\ TooShort(AfterMarker(line))) =>
               Outcome(results[k]) = "RecordInvalidLength"

\* what holds of C4: the lines that do have a length field
ShortLinesWithLengthRejected ==
    \A k \in Parsed :
        LET line == TextLine(raw_data, k)
        IN  Marked(line) =>
              /\ (HasLength(AfterMarker(line)) /\ TooShort(AfterMarker(line))) =>
                    /\ Outcome(results[k]) = "RecordInvalidLength"
                    /\ results[k].err[1].nums
                         = <<Len(AfterMarker(line)), Needed(AfterMarker(line))>>
              /\ Len(AfterMarker(line)) < 2 => Outcome(results[k]) = "panic"

\* C5: Record::binary_size() is the number of bytes of to_bytes(), 5 for a
\* record without payload, and so IntelHexFile::binary_size() is the number of
\* bytes of IntelHexFile::to_bytes().
BinarySizeIsLength ==
    (bin_size # <<>> /\ bytes # <<>>) =>
        /\ bin_size[1] = Len(bytes[1])
        /\ (Len(file[1].records) = 1 /\ file[1].records[1].data = <<>>) =>
              bin_size[1] = 5

\* what holds of C5: binary_size() counts 2 bytes too many for every record
BinarySizeIsLengthPlusTwo ==
    (bin_size # <<>> /\ bytes # <<>>) =>
        bin_size[1] = Len(bytes[1]) + 2 * Len(file[1].records)

\* the number of the first malformed line of the text, 0 if there is none
FirstMalformed(raw) ==
    LET bad == {k \in 1..NumLines(raw) : Malformed(TextLine(raw, k))}
    IN  IF bad = {} THEN 0
        ELSE CHOOSE k \in bad : \A j \in bad : k <= j

\* C6: if Record::parse fails on some line, load returns an error and no
\* document; its chain holds a FileBadRecord error with the 1-based number of
\* the first failing line (skipped lines counted) and that line's record error
\* as its cause; no line after it is looked at.
FailFast ==
    LET n == FirstMalformed(raw_data)
    IN  IF n = 0 THEN pc # "error"
        ELSE /\ file = <<>>
             /\ pc # "panic"
             /\ Len(results) <= n
             /\ pc = "error" =>
                  /\ Len(results) = n
                  /\ results[n].tag = "Err"
                  /\ err[1].err_type = "FileErrorLoad"
                  /\ err[2].err_type = "FileBadRecord"
                  /\ err[2].nums = <<n>>
                  /\ SubSeq(err, 3, Len(err)) = results[n].err

\* what holds of C6: the same, except that load panics where Record::parse does
FailFastUnlessPanic ==
    LET n == FirstMalformed(raw_data)
    IN  IF n = 0 THEN pc # "error"
        ELSE /\ file = <<>>
             /\ Len(results) <= n
             /\ pc = "panic" => (Len(results) = n /\ results[n].tag = "Panic")
             /\ pc = "error" =>
                  /\ Len(results) = n
                  /\ results[n].tag = "Err"
                  /\ err[1].err_type = "FileErrorLoad"
                  /\ err[2].err_type = "FileBadRecord"
                  /\ err[2].nums = <<n>>
                  /\ SubSeq(err, 3, Len(err)) = results[n].err

\* the field an encoding error message names
FieldNamed(msg) ==
    CASE msg = "Error while decoding record length" -> "length"
      [] msg = "Error while decoding address" -> "address"
      [] msg = "Error while decoding checksum" -> "checksum"
      [] OTHER -> "none"

FieldText(b, f) ==
    CASE f = "length" -> SubSeq(b, 1, 2)
      [] f = "address" -> AddressField(b)
      [] f = "type" -> TypeField(b)
      [] f = "payload" -> PayloadField(b)
      [] f = "checksum" -> ChecksumField(b)

\* a long-enough line whose only field with a non-hexadecimal character is f
OnlyBadField(b, f) ==
    IF f = "length"
    THEN Len(b) >= 10 /\ ~IsHex(SubSeq(b, 1, 2)) /\ IsHex(SubSeq(b, 3, 10))
    ELSE /\ LongEnough(b)
         /\ ~IsHex(FieldText(b, f))
         /\ \A g \in {"address", "type", "payload", "checksum"} \ {f} :
                IsHex(FieldText(b, g))
         /\ f # "type" => TypeField(b) \in TypeCodes

\* C8: on a marked, long-enough line with a non-hexadecimal character in one
\* hex field, Record::parse fails with a BadEncoding error whose message names
\* that field.
FieldErrors ==
    \A k \in Parsed :
        LET line == TextLine(raw_data, k)
        IN  Marked(line) =>
              \A f \in {"length", "address", "type", "payload", "checksum"} :
                  OnlyBadField(AfterMarker(line), f) =>
                      /\ Outcome(results[k]) = "RecordBadEndcoding"
                      /\ FieldNamed(results[k].err[1].msg) = f

\* what holds of C8: length, address and checksum fields are named; a bad
\* payload is reported as the address, a bad type code as an invalid type
FieldErrorsAsCoded ==
    \A k \in Parsed :
        LET line == TextLine(raw_data, k)
        IN  (Marked(line) /\ results[k].tag # "Panic") =>
              \A f \in {"length", "address", "type", "payload", "checksum"} :
                  OnlyBadField(AfterMarker(line), f) =>
                      IF f = "type"
                      THEN Outcome(results[k]) = "RecordInvalidType"
                      ELSE /\ Outcome(results[k]) = "RecordBadEndcoding"
                           /\ FieldNamed(results[k].err[1].msg)
                                = (IF f = "payload" THEN "address" ELSE f)

\* the first defect of the text after the marker, in the order of C9, as the
\* kinds of error that report it
FirstDefect(b) ==
    IF Len(b) < 2 THEN {"RecordBadEndcoding", "RecordInvalidLength"}
    ELSE IF ~IsHex(SubSeq(b, 1, 2)) THEN {"RecordBadEndcoding"}
    ELSE IF Len(b) < Needed(b) THEN {"RecordInvalidLength"}
    ELSE IF ~IsHex(AddressField(b)) THEN {"RecordBadEndcoding"}
    ELSE IF TypeField(b) \notin TypeCodes THEN {"RecordInvalidType"}
    ELSE IF ~IsHex(PayloadField(b)) THEN {"RecordBadEndcoding"}
    ELSE IF ~IsHex(ChecksumField(b)) THEN {"RecordBadEndcoding"}
    ELSE IF PairVal(b, Needed(b) - 1) # FormatSum(b) THEN {"RecordBadChecksum"}
    ELSE {"none"}

\* C9: on a marked line Record::parse returns the error of the first defect in
\* the order: length encoding, InvalidLength, address encoding, InvalidType,
\* payload encoding, checksum encoding, BadChecksum.
ErrorPrecedence ==
    \A k \in Parsed :
        LET line == TextLine(raw_data, k)
        IN  Marked(line) => Outcome(results[k]) \in FirstDefect(AfterMarker(line))

\* what holds of C9: the order, wherever Record::parse returns at all
ErrorPrecedenceUnlessPanic ==
    \A k \in Parsed :
        LET line == TextLine(raw_data, k)
        IN  (Marked(line) /\ results[k].tag # "Panic") =>
               Outcome(results[k]) \in FirstDefect(AfterMarker(line))

====
